---------------------------- MODULE Spec2Model ----------------------------
(***************************************************************************)
(* The outbound-message governor of wopr-plugin-twitch: the token bucket   *)
(* RateLimiter (src/src/rate-limiter.ts) and the two send loops of         *)
(* TwitchChatManager that share one limiter (src/unnamed/part_003,         *)
(* sendMessage / sendWhisper).                                             *)
(*                                                                         *)
(* JavaScript runs one callback at a time, so every action below is one    *)
(* synchronous run of the code, from a call or a resumption up to the next *)
(* await.  Date.now() is the variable now; it is read as one value inside  *)
(* a synchronous run and advances only by Tick.                            *)
(***************************************************************************)
EXTENDS Integers, Sequences, FiniteSets, TLC

\* Bounds of the model.
MaxTime == 300
MaxChunks == 2
LogLen == 3

\* Bounds of the texts split: the longest text and the largest maxLen.
MaxTextLen == 7
MaxSplitLen == 5

\* Program constants.
RegularTokens == 20
ModTokens == 100
MinWaitMs == 100

\* Inputs of the constructor RateLimiter(maxTokens, refillIntervalMs) and the
\* steps by which the clock is observed to advance (milliseconds).  The chat
\* manager constructs its limiter with the defaults (20, 30_000); the limiter
\* reads its two parameters only through the comparisons modelled here, so
\* small capacities and windows on either side of the 100 ms minimum wait
\* stand for them.
Capacities == {1, 2, 3}
RefillIntervals == {100, 150}
TickSteps == {50, 100}

\* The constructor's inputs where the tier is switched: the capacities the
\* unit tests construct with, and one window length.
TierCapacities == {1, RegularTokens, ModTokens}
TierIntervals == {150}

\* The constructor's inputs and the clock steps where the connection and
\* the transport are under study.
SendCapacities == {1, 2}
SendIntervals == {100}
SendTickSteps == {100}

\* The characters of a text: two letters, the space the split looks for and
\* a newline, which is whitespace without being a space.  A text is the
\* sequence of its characters.
Whitespace == {" ", "\n"}
Chars == {"a", "b"} \cup Whitespace
Texts == UNION {[1..n -> Chars] : n \in 0..MaxTextLen}

\* The two handlers of incoming messages.
Handlers == {"handleMessage", "handleWhisper"}

\* Strings are sequences of characters.  User names: the default botUsername
\* "unknown", a bot name, two more spellings of it and a viewer.
Unknown == <<"u", "n">>
Viewer == <<"v", "i">>
BotNames == {<<"B", "o">>}
Usernames == BotNames \cup {<<"b", "o">>, <<"b", "O">>, Viewer, Unknown}

\* Channel names as the chat client reports them and as callers pass them,
\* and the ids of whispering users.
Channels == {<<"#", "c", "h">>, <<"#", "C", "h">>, <<"C", "H">>}
UserIds == {<<"7">>, <<"8">>}

NoMessage == [channel |-> <<>>, username |-> <<>>, userId |-> <<>>]

\* Incoming chat messages and whispers: channel, msg.userInfo.userName and
\* msg.userInfo.userId.
ChatMessages ==
    [channel : {<<"#", "c", "h">>}, username : Usernames, userId : {<<"7">>}]
        \cup [channel : Channels, username : {Viewer}, userId : {<<"7">>}]
ViewerMessages == [channel : {<<"#", "c", "h">>}, username : {Viewer}, userId : {<<"7">>}]
Whispers == [channel : {<<>>}, username : {Viewer}, userId : UserIds]

\* How a manager is constructed: config.dmPolicy, apiClient, botUserId.
Configs ==
    [dmPolicy : {"open"}, apiClient : {"null", "client"}, botUserId : {"null", "id"}]
        \cup [dmPolicy : {"disabled", "undefined"}, apiClient : {"client"}, botUserId : {"id"}]

\* The bucket of a manager whose handlers reply.
HandleCapacities == {1}

\* Channel-point redemption events, the user input they may carry ("" or
\* a text) and the broadcaster the manager listens for.
Redemptions == {"r1", "r2"}
Inputs == {<<>>, <<"a">>}
BroadcasterId == <<"9">>

NoRedemption == [pc |-> "none", input |-> <<>>, calls |-> <<>>, stopped |-> FALSE]

\* The keys of the provider's registries (command names, parser ids) and the
\* commands or parsers registered under a key, told apart by a number.
Registries == {"commands", "parsers"}
Keys == {"k1", "k2"}
Items == {1, 2}

\* The two send loops that share the limiter.
Flows == {"sendMessage", "sendWhisper"}

VARIABLES
    now,               \* Date.now()
    maxTokens,         \* RateLimiter.maxTokens
    refillIntervalMs,  \* RateLimiter.refillIntervalMs
    tokens,            \* RateLimiter.tokens
    lastRefill,        \* RateLimiter.lastRefill
    pc,                \* per flow: idle | sleep | admitted | sending
    wake,              \* per flow: expiry of the setTimeout it sleeps on
    timers,            \* the sleeping flows, in the order their timers were armed
    left,              \* per flow: chunks its loop has yet to deliver (0: no loop)
    lastOp,            \* history: the operation that produced this state
    win,               \* history: the current window (since the last refill)
    prev,              \* history: how the last refill came about
    admitLog,          \* history: times of the last LogLen admissions, kept while
                       \* the capacity is below LogLen (more cannot exceed it)
    call,              \* history, per flow: the waitForToken call in progress
    chatClient,        \* TwitchChatManager.chatClient: "null" | "client"
    chatManager,       \* the channel provider's chatManager: "null" | "manager"
    sends,             \* history, per flow: the chunks of its send (in all, paid
                       \* for with a token, handed to the transport, delivered)
    text,              \* splitMessagePublic: its argument text
    maxLen,            \* splitMessagePublic: its argument maxLen
    chunks,            \* splitMessagePublic: its return value, once it has run
    apiClient,         \* TwitchChatManager.apiClient: "null" | "client"
    botUserId,         \* TwitchChatManager.botUserId: "null" | "id"
    botUsername,       \* TwitchChatManager.botUsername
    dmPolicy,          \* TwitchChatManager.config.dmPolicy
    hpc,               \* per handler: idle | inject | send
    incoming,          \* per handler: the message it is handling
    calls,             \* history, per handler: what its current run has called
    registeredCommands, \* the provider's registeredCommands, in the Map's order
    registeredParsers, \* the provider's registeredParsers, in the Map's order
    registered,        \* history: the last registration under each key
    listener,          \* TwitchEventSubManager.listener: "null" | "listener"
    eventApiClient,    \* TwitchEventSubManager.apiClient: "null" | "client"
    started,           \* history: start() has been called on the manager
    redemptions        \* per redemption event: where its handler stands, its
                       \* input, what the handler has called and (history)
                       \* whether stop() ran while the handler was pending

limiterVars == <<maxTokens, refillIntervalMs, tokens, lastRefill>>
flowVars == <<pc, wake, timers, left>>
connVars == <<chatClient, chatManager, apiClient, botUserId>>
handlerVars == <<botUsername, dmPolicy, hpc, incoming, calls>>
registryVars == <<registeredCommands, registeredParsers, registered>>
eventVars == <<listener, eventApiClient, started, redemptions>>
splitVars == <<text, maxLen, chunks>>
vars == <<now, maxTokens, refillIntervalMs, tokens, lastRefill, pc, wake, timers, left,
          lastOp, win, prev, admitLog, call, chatClient, chatManager, sends,
          text, maxLen, chunks, apiClient, botUserId, botUsername, dmPolicy, hpc, incoming, calls,
          registeredCommands, registeredParsers, registered,
          listener, eventApiClient, started, redemptions>>

Max(a, b) == IF a >= b THEN a ELSE b

\* The operation of a step: res is what tryConsume() returned in it, out is
\* how a send ended in it.
Op(op, by, res) == [op |-> op, by |-> by, res |-> res, out |-> "none"]

Ended(op, by, out) == [op |-> op, by |-> by, res |-> "none", out |-> out]

NoSend == [total |-> 0, paid |-> 0, handed |-> 0, delivered |-> 0]

NoCall == [active |-> FALSE, zeroAtCall |-> FALSE, ref |-> 0, slept |-> FALSE,
           alone |-> FALSE]

(***************************************************************************)
(* RateLimiter                                                             *)
(***************************************************************************)

\* Mutant: the window has elapsed only once it is exceeded.
RefillDueStrict == now - lastRefill > refillIntervalMs

\* refill(): the window has elapsed.
RefillDue == now - lastRefill >= refillIntervalMs

\* Mutant: refill() resets the tokens on every call, elapsed window or not.
TokensRefilledEveryCall == maxTokens

\* refill(): this.tokens after it.
TokensRefilled == IF RefillDue THEN maxTokens ELSE tokens

\* Mutant: refill() restarts the window on every call.
LastRefillAlways == now

\* Mutant: refill() never restarts the window.
LastRefillKept == lastRefill

\* refill(): this.lastRefill after it.
LastRefillRefilled == IF RefillDue THEN now ELSE lastRefill

\* Mutant: the last token is never handed out.
AdmittedAboveOne == TokensRefilled > 1

\* tryConsume(): its return value.
Admitted == TokensRefilled > 0

\* Mutant: an admission does not take its token.
TokensNotTaken == TokensRefilled

\* Mutant: the token is taken without the test tokens > 0.
TokensTakenUnchecked == TokensRefilled - 1

\* tryConsume(): this.tokens after it.
TokensConsumed == IF Admitted THEN TokensRefilled - 1 ELSE TokensRefilled

\* waitForToken(): waitMs, computed after the denied tryConsume.
WaitMs == refillIntervalMs - (now - LastRefillRefilled)

\* Mutant: the delay is not floored at the minimum wait.
TimeoutUnfloored == WaitMs

\* Mutant: the retry always comes after the minimum wait.
TimeoutFloorOnly == MinWaitMs

\* waitForToken(): the delay handed to setTimeout.
TimeoutMs == Max(WaitMs, MinWaitMs)

Res == IF Admitted THEN "admit" ELSE "deny"

LastOf(s) == IF Len(s) > LogLen THEN SubSeq(s, Len(s) - LogLen + 1, Len(s)) ELSE s

\* The history kept along a tryConsume() by caller `by` (a flow or "direct").
TryConsumeHist(by) ==
    /\ win' = [cap      |-> IF RefillDue THEN maxTokens ELSE win.cap,
               admitted |-> (IF RefillDue THEN 0 ELSE win.admitted)
                              + (IF Admitted THEN 1 ELSE 0),
               denied   |-> IF RefillDue THEN ~Admitted ELSE win.denied \/ ~Admitted,
               mod      |-> IF RefillDue THEN prev.lastMod ELSE win.mod,
               refilled |-> win.refilled \/ RefillDue]
    /\ prev' = [prev EXCEPT !.denied = IF RefillDue THEN win.denied ELSE @,
                            !.exact = IF RefillDue
                                      THEN now - lastRefill = refillIntervalMs ELSE @]
    /\ admitLog' = IF maxTokens >= LogLen THEN <<>>
                   ELSE IF Admitted THEN LastOf(Append(admitLog, now)) ELSE admitLog

\* tryConsume(): refill, then take a token if there is one.
TryConsume(by) ==
    /\ tokens' = TokensConsumed
    /\ lastRefill' = LastRefillRefilled
    /\ UNCHANGED <<maxTokens, refillIntervalMs>>
    /\ TryConsumeHist(by)

\* A flow other than `by` stops being the only caller of the limiter.
Others(by) == [f \in Flows |-> IF f = by THEN call[f] ELSE [call[f] EXCEPT !.alone = FALSE]]

\* tryConsume() called directly on the limiter.
CallTryConsume ==
    /\ TryConsume("direct")
    /\ lastOp' = Op("tryConsume", "direct", Res)
    /\ call' = Others("direct")
    /\ UNCHANGED <<now, pc, wake, timers, left, connVars, sends, splitVars, handlerVars, registryVars, eventVars>>

\* Mutant: the two tiers are swapped.
SetModeratorModeSwapped(isMod) ==
    /\ maxTokens' = IF isMod THEN RegularTokens ELSE ModTokens
    /\ UNCHANGED <<refillIntervalMs, tokens, lastRefill>>
    /\ lastOp' = Op("setModeratorMode", "direct", "none")
    /\ prev' = [prev EXCEPT !.lastMod = IF isMod THEN "mod" ELSE "regular"]
    /\ call' = Others("direct")
    /\ UNCHANGED <<now, pc, wake, timers, left, win, admitLog>>
    /\ UNCHANGED <<connVars, sends, splitVars, handlerVars, registryVars, eventVars>>

\* Mutant: the tier switch also refills the bucket to the new capacity.
SetModeratorModeResets(isMod) ==
    /\ maxTokens' = IF isMod THEN ModTokens ELSE RegularTokens
    /\ tokens' = maxTokens'
    /\ UNCHANGED <<refillIntervalMs, lastRefill>>
    /\ lastOp' = Op("setModeratorMode", "direct", "none")
    /\ prev' = [prev EXCEPT !.lastMod = IF isMod THEN "mod" ELSE "regular"]
    /\ call' = Others("direct")
    /\ UNCHANGED <<now, pc, wake, timers, left, win, admitLog>>
    /\ UNCHANGED <<connVars, sends, splitVars, handlerVars, registryVars, eventVars>>

\* setModeratorMode(isMod)
SetModeratorMode(isMod) ==
    /\ maxTokens' = IF isMod THEN ModTokens ELSE RegularTokens
    /\ UNCHANGED <<refillIntervalMs, tokens, lastRefill>>
    /\ lastOp' = Op("setModeratorMode", "direct", "none")
    /\ prev' = [prev EXCEPT !.lastMod = IF isMod THEN "mod" ELSE "regular"]
    /\ call' = Others("direct")
    /\ UNCHANGED <<now, pc, wake, timers, left, win, admitLog>>
    /\ UNCHANGED <<connVars, sends, splitVars, handlerVars, registryVars, eventVars>>

\* The clock advances by d.
Tick(d) ==
    /\ now + d <= MaxTime
    /\ now' = now + d
    /\ lastOp' = Op("tick", "clock", "none")
    /\ UNCHANGED <<limiterVars, flowVars, win, prev, admitLog, call>>
    /\ UNCHANGED <<connVars, sends, splitVars, handlerVars, registryVars, eventVars>>

(***************************************************************************)
(* TwitchChatManager.sendMessage / sendWhisper                             *)
(***************************************************************************)

Without(q, f) == SelectSeq(q, LAMBDA g : g # f)

\* The history of a send after its waitForToken() has run once more.
Paid(send) == [send EXCEPT !.paid = @ + (IF Admitted THEN 1 ELSE 0)]

\* waitForToken(), from its call or from the timer that resumes it, up to its
\* return (pc = admitted) or its next setTimeout (pc = sleep).
WaitForToken(f, op, fresh) ==
    /\ TryConsume(f)
    /\ pc' = [pc EXCEPT ![f] = IF Admitted THEN "admitted" ELSE "sleep"]
    /\ wake' = [wake EXCEPT ![f] = IF Admitted THEN 0 ELSE now + TimeoutMs]
    /\ timers' = IF Admitted THEN Without(timers, f) ELSE Append(Without(timers, f), f)
    /\ lastOp' = Op(op, f, Res)
    /\ call' = [g \in Flows |->
                  IF g # f THEN [call[g] EXCEPT !.alone = FALSE]
                  ELSE IF fresh
                       THEN [active |-> TRUE, zeroAtCall |-> tokens = 0,
                             ref |-> lastRefill, slept |-> ~Admitted, alone |-> TRUE]
                       ELSE [call[f] EXCEPT !.slept = @ \/ ~Admitted]]
    /\ UNCHANGED <<connVars, splitVars, registryVars, eventVars>>

\* sendMessage(channel, text) / sendWhisper(user, id, text) with a text of n
\* chunks, past its test of chatClient / of apiClient and botUserId: the
\* first iteration of the loop calls waitForToken().
Send(f, n) ==
    /\ pc[f] = "idle"
    /\ f = "sendMessage" => chatClient # "null"
    /\ f = "sendWhisper" => apiClient # "null" /\ botUserId # "null"
    /\ left' = [left EXCEPT ![f] = n]
    /\ sends' = [sends EXCEPT ![f] = Paid([NoSend EXCEPT !.total = n])]
    /\ WaitForToken(f, "call", TRUE)
    /\ UNCHANGED now

\* Mutant: sendMessage enters its loop without looking at chatClient.
CallUnguarded(f, n) ==
    /\ pc[f] = "idle"
    /\ left' = [left EXCEPT ![f] = n]
    /\ sends' = [sends EXCEPT ![f] = Paid([NoSend EXCEPT !.total = n])]
    /\ WaitForToken(f, "call", TRUE)
    /\ UNCHANGED <<now, handlerVars>>

\* sendMessage / sendWhisper called from outside the two handlers.
Call(f, n) == Send(f, n) /\ UNCHANGED handlerVars

\* The timer of a sleeping waitForToken() fires: the loop tries again.
Wake(f) ==
    /\ pc[f] = "sleep"
    /\ now >= wake[f]
    /\ WaitForToken(f, "wake", FALSE)
    /\ sends' = [sends EXCEPT ![f] = Paid(@)]
    /\ UNCHANGED <<now, left, handlerVars>>

\* Position of flow f in the timer list.
Armed(f) == CHOOSE i \in 1..Len(timers) : timers[i] = f

\* The runtime runs due timers by expiry and, on a tie, in the order armed.
TimerFirst(f) ==
    \A g \in Flows \ {f} :
        pc[g] = "sleep" => \/ wake[f] < wake[g]
                           \/ wake[f] = wake[g] /\ Armed(f) < Armed(g)

\* Wake(f), by a runtime that keeps the order of its timers.
WakeInOrder(f) == pc[f] = "sleep" /\ TimerFirst(f) /\ Wake(f)

\* Mutant: the loop hands the chunk over without awaiting waitForToken().
TransportUnadmitted(f) ==
    /\ pc[f] \in {"admitted", "sleep"}
    /\ f = "sendMessage" => chatClient # "null"
    /\ pc' = [pc EXCEPT ![f] = "sending"]
    /\ lastOp' = Op("transport", f, "none")
    /\ call' = [call EXCEPT ![f] = NoCall]
    /\ sends' = [sends EXCEPT ![f].handed = @ + 1]
    /\ UNCHANGED <<now, limiterVars, wake, timers, left, win, prev, admitLog>>
    /\ UNCHANGED <<connVars, splitVars, handlerVars, registryVars, eventVars>>

\* waitForToken() has returned: the chunk is handed to the transport.
Transport(f) ==
    /\ pc[f] = "admitted"
    /\ f = "sendMessage" => chatClient # "null"
    /\ pc' = [pc EXCEPT ![f] = "sending"]
    /\ lastOp' = Op("transport", f, "none")
    /\ call' = [call EXCEPT ![f] = NoCall]
    /\ sends' = [sends EXCEPT ![f].handed = @ + 1]
    /\ UNCHANGED <<now, limiterVars, wake, timers, left, win, prev, admitLog>>
    /\ UNCHANGED <<connVars, splitVars, handlerVars, registryVars, eventVars>>

\* Mutant: the loop does not advance past the chunk it has delivered.
SentResends(f) ==
    /\ pc[f] = "sending"
    /\ WaitForToken(f, "sent", TRUE)
    /\ sends' = [sends EXCEPT ![f] = Paid([sends[f] EXCEPT !.delivered = @ + 1])]
    /\ UNCHANGED <<now, left, handlerVars>>

\* The transport has delivered the chunk: the loop goes on to the next chunk
\* (and calls waitForToken() for it) or the send returns.
Sent(f) ==
    /\ pc[f] = "sending"
    /\ left' = [left EXCEPT ![f] = @ - 1]
    /\ IF left[f] > 1
       THEN /\ WaitForToken(f, "sent", TRUE)
            /\ sends' = [sends EXCEPT ![f] = Paid([sends[f] EXCEPT !.delivered = @ + 1])]
       ELSE /\ pc' = [pc EXCEPT ![f] = "idle"]
            /\ lastOp' = Ended("sent", f, "returned")
            /\ sends' = [sends EXCEPT ![f] = NoSend]
            /\ UNCHANGED <<limiterVars, wake, timers, win, prev, admitLog, call>>
            /\ UNCHANGED <<connVars, splitVars, registryVars, eventVars>>
    /\ UNCHANGED <<now, handlerVars>>

\* Mutant: the loop catches the rejection and hands the chunk over again.
TransportFailsRetried(f) ==
    /\ pc[f] = "sending"
    /\ pc' = [pc EXCEPT ![f] = "admitted"]
    /\ lastOp' = Ended("failed", f, "transport error")
    /\ UNCHANGED <<now, limiterVars, wake, timers, left, win, prev, admitLog, call>>
    /\ UNCHANGED <<connVars, sends, splitVars, handlerVars, registryVars, eventVars>>

\* The transport rejects the chunk it was handed: the rejection leaves the
\* loop and the send fails with it.
TransportFails(f) ==
    /\ pc[f] = "sending"
    /\ pc' = [pc EXCEPT ![f] = "idle"]
    /\ left' = [left EXCEPT ![f] = 0]
    /\ lastOp' = Ended("failed", f, "transport error")
    /\ UNCHANGED <<now, limiterVars, wake, timers, win, prev, admitLog, call>>
    /\ UNCHANGED <<connVars, sends, splitVars, handlerVars, registryVars, eventVars>>

\* Mutant: the chunk is handed over to a client that is gone.
TransportCrashIgnored ==
    /\ pc["sendMessage"] = "admitted"
    /\ chatClient = "null"
    /\ pc' = [pc EXCEPT !["sendMessage"] = "sending"]
    /\ lastOp' = Op("transport", "sendMessage", "none")
    /\ call' = [call EXCEPT !["sendMessage"] = NoCall]
    /\ sends' = [sends EXCEPT !["sendMessage"].handed = @ + 1]
    /\ UNCHANGED <<now, limiterVars, wake, timers, left, win, prev, admitLog>>
    /\ UNCHANGED <<connVars, splitVars, handlerVars, registryVars, eventVars>>

\* sendMessage: waitForToken() has returned after disconnect() cleared
\* chatClient; this.chatClient.say throws a TypeError and the send fails.
TransportCrash ==
    /\ pc["sendMessage"] = "admitted"
    /\ chatClient = "null"
    /\ pc' = [pc EXCEPT !["sendMessage"] = "idle"]
    /\ lastOp' = Ended("transport", "sendMessage", "TypeError")
    /\ left' = [left EXCEPT !["sendMessage"] = 0]
    /\ call' = [call EXCEPT !["sendMessage"] = NoCall]
    /\ UNCHANGED <<now, limiterVars, wake, timers, win, prev, admitLog>>
    /\ UNCHANGED <<connVars, sends, splitVars, handlerVars, registryVars, eventVars>>

\* sendMessage without a chat client: it throws before its loop.
SendMessageRefused ==
    /\ chatClient = "null"
    /\ lastOp' = Ended("call", "sendMessage", "Twitch chat not connected")
    /\ UNCHANGED <<now, limiterVars, flowVars, win, prev, admitLog, call>>
    /\ UNCHANGED <<connVars, sends, splitVars, handlerVars, registryVars, eventVars>>

\* connect(): the manager creates its chat client.
Connect ==
    /\ chatClient = "null"
    /\ chatClient' = "client"
    /\ lastOp' = Op("connect", "manager", "none")
    /\ UNCHANGED <<now, limiterVars, flowVars, win, prev, admitLog, call>>
    /\ UNCHANGED <<chatManager, apiClient, botUserId, sends, splitVars, handlerVars, registryVars, eventVars>>

\* disconnect(): the manager quits its chat client and forgets it.
Disconnect ==
    /\ chatClient = "client"
    /\ chatClient' = "null"
    /\ lastOp' = Op("disconnect", "manager", "none")
    /\ UNCHANGED <<now, limiterVars, flowVars, win, prev, admitLog, call>>
    /\ UNCHANGED <<chatManager, apiClient, botUserId, sends, splitVars, handlerVars, registryVars, eventVars>>

(***************************************************************************)
(* TwitchChatManager.splitMessagePublic                                    *)
(***************************************************************************)

Min(a, b) == IF a <= b THEN a ELSE b

\* s.slice(from): the characters of s from index `from` (counted from 0) on.
Slice(s, from) == SubSeq(s, from + 1, Len(s))

\* s.lastIndexOf(c, from): the last index (counted from 0) at or before
\* `from` where s holds c, or -1.
LastIndexOf(s, c, from) ==
    LET found == {i \in 0..Min(from, Len(s) - 1) : s[i + 1] = c}
    IN  IF found = {} THEN -1 ELSE CHOOSE i \in found : \A j \in found : j <= i

\* Mutant: one character is dropped at each break, whitespace or not.
TrimStartOneChar(s) == IF s = <<>> THEN s ELSE Tail(s)

RECURSIVE TrimStart(_)
\* s.trimStart()
TrimStart(s) == IF s # <<>> /\ Head(s) \in Whitespace THEN TrimStart(Tail(s)) ELSE s

\* Mutant: the last space of the whole text is taken, however far it is.
SplitAtLastSpace(remaining, n) ==
    LET splitAt == LastIndexOf(remaining, " ", Len(remaining) - 1)
    IN  IF 10 * splitAt < 6 * n THEN n ELSE splitAt

\* Mutant: the split is forced only where no space is found.
SplitAtAnySpace(remaining, n) ==
    LET splitAt == LastIndexOf(remaining, " ", n)
    IN  IF splitAt < 0 THEN n ELSE splitAt

\* Mutant: a forced split stops one character short of maxLen.
SplitAtShort(remaining, n) ==
    LET splitAt == LastIndexOf(remaining, " ", n)
    IN  IF 10 * splitAt < 6 * n THEN Max(n - 1, 1) ELSE splitAt

\* The loop body's splitAt: the last space at or before maxLen, or maxLen if
\* that is before maxLen * 0.6 (the comparison in tenths is exact).
SplitAt(remaining, n) ==
    LET splitAt == LastIndexOf(remaining, " ", n)
    IN  IF 10 * splitAt < 6 * n THEN n ELSE splitAt

RECURSIVE SplitLoop(_, _)
\* The while loop: the chunks pushed from `remaining` on.
SplitLoop(remaining, n) ==
    IF Len(remaining) = 0 THEN <<>>
    ELSE IF Len(remaining) <= n THEN <<remaining>>
    ELSE <<SubSeq(remaining, 1, SplitAt(remaining, n))>>
           \o SplitLoop(TrimStart(Slice(remaining, SplitAt(remaining, n))), n)

\* Mutant: no early return for a text that fits.
SplitAlwaysLoops(t, n) == SplitLoop(t, n)

\* splitMessagePublic(text, maxLen)
splitMessagePublic(t, n) == IF Len(t) <= n THEN <<t>> ELSE SplitLoop(t, n)

\* splitMessagePublic(text, maxLen) is called and returns.
SplitMessage ==
    /\ lastOp.op # "splitMessage"
    /\ chunks' = splitMessagePublic(text, maxLen)
    /\ lastOp' = Op("splitMessage", "direct", "none")
    /\ UNCHANGED <<now, limiterVars, flowVars, win, prev, admitLog, call>>
    /\ UNCHANGED <<connVars, sends, text, maxLen, handlerVars, registryVars, eventVars>>

(***************************************************************************)
(* twitchChannelProvider                                                   *)
(***************************************************************************)

\* setChatManager(manager): the plugin's init passes the manager, its
\* shutdown passes null.
SetChatManager(manager) ==
    /\ chatManager # manager
    /\ chatManager' = manager
    /\ lastOp' = Op("setChatManager", "plugin", "none")
    /\ UNCHANGED <<now, limiterVars, flowVars, win, prev, admitLog, call>>
    /\ UNCHANGED <<chatClient, apiClient, botUserId, sends, splitVars, handlerVars, registryVars, eventVars>>

\* send(channelId, content) without a chat manager: it throws.
ProviderSendRefused ==
    /\ chatManager = "null"
    /\ lastOp' = Ended("send", "provider", "Twitch chat not connected")
    /\ UNCHANGED <<now, limiterVars, flowVars, win, prev, admitLog, call>>
    /\ UNCHANGED <<connVars, sends, splitVars, handlerVars, registryVars, eventVars>>

\* send(channelId, content) with a content of n chunks: it calls the
\* manager's sendMessage.
ProviderSend(n) ==
    /\ chatManager = "manager"
    /\ Call("sendMessage", n) \/ SendMessageRefused

(***************************************************************************)
(* TwitchChatManager.handleMessagePublic / handleWhisperPublic             *)
(***************************************************************************)

\* The send loop a handler replies through.
FlowOf == [h \in Handlers |-> IF h = "handleMessage" THEN "sendMessage" ELSE "sendWhisper"]

\* The upper-case letters of the alphabet in use and their lower-case forms.
UpperCase == <<"B", "C", "H", "O">>
LowerCase == <<"b", "c", "h", "o">>

LowerChar(c) ==
    IF \E i \in 1..Len(UpperCase) : UpperCase[i] = c
    THEN LowerCase[CHOOSE i \in 1..Len(UpperCase) : UpperCase[i] = c]
    ELSE c

\* Mutant: the comparison and the channel keep their case.
LowerKept(str) == str

\* str.toLowerCase()
Lower(str) == [i \in 1..Len(str) |-> LowerChar(str[i])]

\* Mutant: the channel is lowercased, its '#' kept.
CleanChannelHashed(channel) == Lower(channel)

\* channel.replace(/^#/, "").toLowerCase()
CleanChannel(channel) ==
    Lower(IF channel # <<>> /\ Head(channel) = "#" THEN Tail(channel) ELSE channel)

\* A call of the host context or of a send function, with the arguments the
\* claims are about.
CtxCall(fn, sessionKey, channelId, to) ==
    [fn |-> fn, sessionKey |-> sessionKey, channelId |-> channelId, to |-> to]

\* this.ctx.logMessage(sessionKey, ...) then this.ctx.inject(sessionKey, ...),
\* both with channel: {id: channelId}
LogThenInject(sessionKey, channelId) ==
    <<CtxCall("logMessage", sessionKey, channelId, <<>>),
      CtxCall("inject", sessionKey, channelId, <<>>)>>

\* What a handler step leaves alone besides the send loops and the limiter.
HandlerFrame ==
    UNCHANGED <<now, connVars, splitVars, registryVars, eventVars, botUsername, dmPolicy>>

\* What a handler step that calls no send function leaves alone.
HandlerOnly ==
    /\ HandlerFrame
    /\ UNCHANGED <<limiterVars, flowVars, win, prev, admitLog, call, sends>>

\* setBotUsername(username)
SetBotUsername(username) ==
    /\ botUsername' = username
    /\ lastOp' = Op("setBotUsername", "manager", "none")
    /\ UNCHANGED <<now, limiterVars, flowVars, win, prev, admitLog, call, connVars, sends>>
    /\ UNCHANGED <<splitVars, registryVars, eventVars, dmPolicy, hpc, incoming, calls>>

\* handleMessagePublic(channel, _user, text, msg) up to its return on the
\* bot's own message or to its await of inject().  extractUserInfo copies
\* msg.userInfo.userName to userInfo.username.
HandleMessage(m) ==
    LET h == "handleMessage"
        cleanChannel == CleanChannel(m.channel)
        channelId == <<"twitch:">> \o cleanChannel
        sessionKey == <<"twitch-">> \o cleanChannel
    IN  /\ hpc[h] = "idle"
        /\ incoming' = [incoming EXCEPT ![h] = m]
        /\ IF Lower(m.username) = Lower(botUsername)
           THEN /\ calls' = [calls EXCEPT ![h] = <<>>]
                /\ lastOp' = Ended("handle", h, "ignored")
                /\ UNCHANGED hpc
           ELSE /\ calls' = [calls EXCEPT ![h] = LogThenInject(sessionKey, channelId)]
                /\ lastOp' = Op("handle", h, "none")
                /\ hpc' = [hpc EXCEPT ![h] = "inject"]
        /\ HandlerOnly

\* Mutant: whispers are answered whatever the policy.
HandleWhisperAlways(m) ==
    LET h == "handleWhisper"
        channelId == <<"twitch-whisper:">> \o m.userId
        sessionKey == <<"twitch-whisper-">> \o m.userId
    IN  /\ hpc[h] = "idle"
        /\ incoming' = [incoming EXCEPT ![h] = m]
        /\ calls' = [calls EXCEPT ![h] = LogThenInject(sessionKey, channelId)]
        /\ lastOp' = Op("handle", h, "none")
        /\ hpc' = [hpc EXCEPT ![h] = "inject"]
        /\ HandlerOnly

\* handleWhisperPublic(user, text, msg) up to its return under dmPolicy
\* "disabled" or to its await of inject().
HandleWhisper(m) ==
    LET h == "handleWhisper"
        channelId == <<"twitch-whisper:">> \o m.userId
        sessionKey == <<"twitch-whisper-">> \o m.userId
    IN  /\ hpc[h] = "idle"
        /\ incoming' = [incoming EXCEPT ![h] = m]
        /\ IF dmPolicy = "disabled"
           THEN /\ calls' = [calls EXCEPT ![h] = <<>>]
                /\ lastOp' = Ended("handle", h, "ignored")
                /\ UNCHANGED hpc
           ELSE /\ calls' = [calls EXCEPT ![h] = LogThenInject(sessionKey, channelId)]
                /\ lastOp' = Op("handle", h, "none")
                /\ hpc' = [hpc EXCEPT ![h] = "inject"]
        /\ HandlerOnly

\* The call a handler makes once inject() has resolved.
Dispatch(h) ==
    IF h = "handleMessage"
    THEN CtxCall("sendMessage", <<>>, <<>>, incoming[h].channel)
    ELSE CtxCall("sendWhisper", <<>>, <<>>, incoming[h].userId)

\* inject() has resolved with a response of n chunks: the handler calls
\* sendMessage(channel, response) / sendWhisper(user, userId, response).
\* sendMessage without a chat client throws and the handler rejects with it;
\* sendWhisper without an API client or a bot user id warns and returns, and
\* the handler returns; otherwise the send runs up to its first await.
InjectResolves(h, n) ==
    /\ hpc[h] = "inject"
    /\ UNCHANGED <<incoming, botUsername, dmPolicy>>
    /\ IF h = "handleMessage" /\ chatClient = "null"
       THEN /\ calls' = [calls EXCEPT ![h] = Append(@, Dispatch(h))]
            /\ hpc' = [hpc EXCEPT ![h] = "idle"]
            /\ lastOp' = Ended("inject", h, "Twitch chat not connected")
            /\ HandlerOnly
       ELSE IF h = "handleWhisper" /\ (apiClient = "null" \/ botUserId = "null")
       THEN /\ calls' = [calls EXCEPT ![h] =
                           Append(Append(@, Dispatch(h)), CtxCall("log.warn", <<>>, <<>>, <<>>))]
            /\ hpc' = [hpc EXCEPT ![h] = "idle"]
            /\ lastOp' = Ended("inject", h, "returned")
            /\ HandlerOnly
       ELSE /\ calls' = [calls EXCEPT ![h] = Append(@, Dispatch(h))]
            /\ hpc' = [hpc EXCEPT ![h] = "send"]
            /\ Send(FlowOf[h], n)

\* inject() has rejected: no handler catches it.
InjectRejects(h) ==
    /\ hpc[h] = "inject"
    /\ hpc' = [hpc EXCEPT ![h] = "idle"]
    /\ lastOp' = Ended("inject", h, "inject error")
    /\ UNCHANGED <<incoming, calls>>
    /\ HandlerOnly

\* The send a handler awaits has rejected.
SendFailed(h) == sends[FlowOf[h]] # NoSend

\* Mutant: neither handler catches the rejection of its send.
SendEndsUncaught(h) ==
    /\ hpc[h] = "send"
    /\ pc[FlowOf[h]] = "idle"
    /\ hpc' = [hpc EXCEPT ![h] = "idle"]
    /\ lastOp' = Ended("send", h, IF SendFailed(h) THEN "rejected" ELSE "returned")
    /\ UNCHANGED <<incoming, calls>>
    /\ HandlerOnly

\* The send a handler awaits has settled.  handleMessage has no try around
\* its await: it returns or rejects as the send did.  handleWhisper catches
\* the rejection, logs it and returns.
SendEnds(h) ==
    /\ hpc[h] = "send"
    /\ pc[FlowOf[h]] = "idle"
    /\ hpc' = [hpc EXCEPT ![h] = "idle"]
    /\ IF h = "handleMessage"
       THEN /\ lastOp' = Ended("send", h, IF SendFailed(h) THEN "rejected" ELSE "returned")
            /\ UNCHANGED calls
       ELSE /\ lastOp' = Ended("send", h, "returned")
            /\ calls' = [calls EXCEPT ![h] =
                           IF SendFailed(h)
                           THEN Append(@, CtxCall("log.error", <<>>, <<>>, <<>>))
                           ELSE @]
    /\ UNCHANGED incoming
    /\ HandlerOnly

\* sendWhisper called on a manager without an API client or a bot user id:
\* it warns and returns.
SendWhisperSkipped ==
    /\ apiClient = "null" \/ botUserId = "null"
    /\ lastOp' = Ended("call", "sendWhisper", "returned")
    /\ UNCHANGED <<now, limiterVars, flowVars, win, prev, admitLog, call>>
    /\ UNCHANGED <<connVars, sends, splitVars, handlerVars, registryVars, eventVars>>

(***************************************************************************)
(* TwitchEventSubManager                                                   *)
(***************************************************************************)

\* The frame of an EventSub operation.
EventFrame ==
    UNCHANGED <<now, limiterVars, flowVars, win, prev, admitLog, call, connVars, sends,
                splitVars, handlerVars, registryVars>>

\* A call of the host context by the redemption handler: sessionKey
\* `twitch-${broadcasterId}`, channelRef.id `twitch:${broadcasterId}`.
EventCall(fn) ==
    CtxCall(fn, <<"twitch-">> \o BroadcasterId, <<"twitch:">> \o BroadcasterId, <<>>)

\* A call that takes no session key.
PlainCall(fn) == CtxCall(fn, <<>>, <<>>, <<>>)

\* start(authProvider): the plugin calls it once, on the manager it has just
\* constructed (src/src/index.ts:190-192).
EventStart ==
    /\ ~started
    /\ started' = TRUE
    /\ eventApiClient' = "client"
    /\ listener' = "listener"
    /\ lastOp' = Op("start", "eventsub", "none")
    /\ UNCHANGED redemptions
    /\ EventFrame

\* stop()
EventStop ==
    /\ started
    /\ listener' = "null"
    /\ eventApiClient' = "null"
    /\ redemptions' = [e \in Redemptions |->
                          IF redemptions[e].pc \in {"inject", "fulfil"}
                          THEN [redemptions[e] EXCEPT !.stopped = TRUE]
                          ELSE redemptions[e]]
    /\ lastOp' = Op("stop", "eventsub", "none")
    /\ UNCHANGED started
    /\ EventFrame

\* The listener delivers redemption e: the handler logs it and, if
\* event.input is truthy (a non-empty string), calls inject and awaits it.
RedemptionAdd(e, input) ==
    /\ listener = "listener"
    /\ redemptions[e].pc = "none"
    /\ redemptions' = [redemptions EXCEPT ![e] =
          [pc |-> IF input # <<>> THEN "inject" ELSE "done",
           input |-> input,
           calls |-> IF input # <<>>
                     THEN <<EventCall("logMessage"), EventCall("inject")>>
                     ELSE <<EventCall("logMessage")>>,
           stopped |-> FALSE]]
    /\ lastOp' = IF input # <<>> THEN Op("redemption", e, "none")
                                 ELSE Ended("redemption", e, "returned")
    /\ UNCHANGED <<listener, eventApiClient, started>>
    /\ EventFrame

\* Mutant: the handler marks the redemption without looking at apiClient.
RedemptionInjectResolvesUnchecked(e) ==
    /\ redemptions[e].pc = "inject"
    /\ redemptions' = [redemptions EXCEPT
                          ![e].pc = "fulfil",
                          ![e].calls = Append(@, PlainCall("updateRedemptionStatusByIds"))]
    /\ lastOp' = Op("inject", e, "none")
    /\ UNCHANGED <<listener, eventApiClient, started>>
    /\ EventFrame

\* inject() has resolved: if this.apiClient is set the handler calls
\* updateRedemptionStatusByIds(..., "FULFILLED") and awaits it, else it
\* returns.
RedemptionInjectResolves(e) ==
    /\ redemptions[e].pc = "inject"
    /\ IF eventApiClient # "null"
       THEN /\ redemptions' = [redemptions EXCEPT
                                 ![e].pc = "fulfil",
                                 ![e].calls = Append(@, PlainCall("updateRedemptionStatusByIds"))]
            /\ lastOp' = Op("inject", e, "none")
       ELSE /\ redemptions' = [redemptions EXCEPT ![e].pc = "done"]
            /\ lastOp' = Ended("inject", e, "returned")
    /\ UNCHANGED <<listener, eventApiClient, started>>
    /\ EventFrame

\* inject() has rejected: the handler rejects with it.
RedemptionInjectRejects(e) ==
    /\ redemptions[e].pc = "inject"
    /\ redemptions' = [redemptions EXCEPT ![e].pc = "done"]
    /\ lastOp' = Ended("inject", e, "inject error")
    /\ UNCHANGED <<listener, eventApiClient, started>>
    /\ EventFrame

\* updateRedemptionStatusByIds has resolved: the handler returns.
RedemptionFulfilled(e) ==
    /\ redemptions[e].pc = "fulfil"
    /\ redemptions' = [redemptions EXCEPT ![e].pc = "done"]
    /\ lastOp' = Ended("fulfilled", e, "returned")
    /\ UNCHANGED <<listener, eventApiClient, started>>
    /\ EventFrame

\* updateRedemptionStatusByIds has rejected: the handler catches the error,
\* logs it and returns.
RedemptionFulfilFails(e) ==
    /\ redemptions[e].pc = "fulfil"
    /\ redemptions' = [redemptions EXCEPT
                          ![e].pc = "done",
                          ![e].calls = Append(@, PlainCall("log.error"))]
    /\ lastOp' = Ended("fulfilFailed", e, "returned")
    /\ UNCHANGED <<listener, eventApiClient, started>>
    /\ EventFrame

\* The frame of a registry operation: everything but the registries.
RegistryFrame ==
    UNCHANGED <<now, limiterVars, flowVars, win, prev, admitLog, call, connVars, sends,
                splitVars, handlerVars, eventVars>>

\* Mutant: set adds an entry even where the key is present.
MapSetAppends(m, k, i) == Append(m, [key |-> k, item |-> i])

\* Map.prototype.set(k, i) on a Map held as the sequence of its entries: the
\* value of a present key is replaced in place, a new key goes to the end.
MapSet(m, k, i) ==
    IF \E j \in 1..Len(m) : m[j].key = k
    THEN [j \in 1..Len(m) |-> IF m[j].key = k THEN [key |-> k, item |-> i] ELSE m[j]]
    ELSE Append(m, [key |-> k, item |-> i])

\* Map.prototype.delete(k)
MapDelete(m, k) == SelectSeq(m, LAMBDA e : e.key # k)

\* Array.from(m.values())
Values(m) == [j \in 1..Len(m) |-> m[j].item]

\* getCommands()
GetCommands == Values(registeredCommands)

\* getMessageParsers()
GetMessageParsers == Values(registeredParsers)

\* registerCommand(cmd), cmd.name = k
RegisterCommand(k, i) ==
    /\ registeredCommands' = MapSet(registeredCommands, k, i)
    /\ registered' = [registered EXCEPT !["commands"][k] = i]
    /\ lastOp' = Op("registerCommand", "provider", "none")
    /\ UNCHANGED registeredParsers
    /\ RegistryFrame

\* unregisterCommand(name), name = k
UnregisterCommand(k) ==
    /\ registeredCommands' = MapDelete(registeredCommands, k)
    /\ registered' = [registered EXCEPT !["commands"][k] = 0]
    /\ lastOp' = Op("unregisterCommand", "provider", "none")
    /\ UNCHANGED registeredParsers
    /\ RegistryFrame

\* addMessageParser(parser), parser.id = k
AddMessageParser(k, i) ==
    /\ registeredParsers' = MapSet(registeredParsers, k, i)
    /\ registered' = [registered EXCEPT !["parsers"][k] = i]
    /\ lastOp' = Op("addMessageParser", "provider", "none")
    /\ UNCHANGED registeredCommands
    /\ RegistryFrame

\* removeMessageParser(id), id = k
RemoveMessageParser(k) ==
    /\ registeredParsers' = MapDelete(registeredParsers, k)
    /\ registered' = [registered EXCEPT !["parsers"][k] = 0]
    /\ lastOp' = Op("removeMessageParser", "provider", "none")
    /\ UNCHANGED registeredCommands
    /\ RegistryFrame

(***************************************************************************)
(* Specification                                                           *)
(***************************************************************************)

\* new RateLimiter(c, iv) at time 0; no send in progress.
Construct(caps, intervals) ==
    /\ now = 0
    /\ maxTokens \in caps
    /\ refillIntervalMs \in intervals
    /\ tokens = maxTokens
    /\ lastRefill = now
    /\ pc = [f \in Flows |-> "idle"]
    /\ wake = [f \in Flows |-> 0]
    /\ timers = <<>>
    /\ left = [f \in Flows |-> 0]
    /\ lastOp = Op("construct", "direct", "none")
    /\ win = [cap |-> maxTokens, admitted |-> 0, denied |-> FALSE, mod |-> "none",
              refilled |-> FALSE]
    /\ prev = [denied |-> FALSE, exact |-> FALSE, lastMod |-> "none"]
    /\ admitLog = <<>>
    /\ call = [f \in Flows |-> NoCall]
    /\ sends = [f \in Flows |-> NoSend]

\* connect() has run and the plugin has handed the manager to the provider.
Connected ==
    /\ chatClient = "client" /\ chatManager = "manager"
    /\ apiClient = "client" /\ botUserId = "id"

\* No handler is running; the manager's botUsername and dmPolicy are the
\* defaults.
NoHandler ==
    /\ botUsername = Unknown
    /\ dmPolicy = "undefined"
    /\ hpc = [h \in Handlers |-> "idle"]
    /\ incoming = [h \in Handlers |-> NoMessage]
    /\ calls = [h \in Handlers |-> <<>>]

\* The provider's two registries are empty.
NoRegistry ==
    /\ registeredCommands = <<>>
    /\ registeredParsers = <<>>
    /\ registered = [r \in Registries |-> [k \in Keys |-> 0]]

\* The EventSub manager as constructed, no redemption received.
NoEvent ==
    /\ listener = "null"
    /\ eventApiClient = "null"
    /\ started = FALSE
    /\ redemptions = [e \in Redemptions |-> NoRedemption]

\* splitMessagePublic is not under study.
NoSplit == text = <<>> /\ maxLen = 0 /\ chunks = <<>>

\* The limiter shared by the two send loops, and called directly.
Init ==
    Construct(Capacities, RefillIntervals) /\ Connected /\ NoSplit /\ NoHandler /\ NoRegistry /\ NoEvent

Next ==
    \/ CallTryConsume
    \/ \E d \in TickSteps : Tick(d)
    \/ \E f \in Flows, n \in 1..MaxChunks : Call(f, n)
    \/ \E f \in Flows : Wake(f)
    \/ \E f \in Flows : Transport(f)
    \/ \E f \in Flows : Sent(f)

Spec == Init /\ [][Next]_vars

\* The limiter with its tier switched at run time, called directly and by
\* one send loop.
InitTier ==
    /\ Construct(TierCapacities, TierIntervals)
    /\ Connected /\ NoSplit /\ NoHandler /\ NoRegistry /\ NoEvent

NextTier ==
    \/ CallTryConsume
    \/ \E isMod \in BOOLEAN : SetModeratorMode(isMod)
    \/ \E d \in TickSteps : Tick(d)
    \/ \E n \in 1..MaxChunks : Call("sendMessage", n)
    \/ Wake("sendMessage")
    \/ Transport("sendMessage")
    \/ Sent("sendMessage")

SpecTier == InitTier /\ [][NextTier]_vars

\* The send loops on a manager that is connected and disconnected, with a
\* transport that may reject a chunk, reached directly and through the
\* channel provider.  The manager is constructed but not connected and the
\* provider has no manager yet.
InitSend ==
    /\ Construct(SendCapacities, SendIntervals)
    /\ chatClient = "null"
    /\ chatManager = "null"
    /\ apiClient = "client"
    /\ botUserId = "id"
    /\ NoSplit /\ NoHandler /\ NoRegistry /\ NoEvent

NextSend ==
    \/ \E d \in SendTickSteps : Tick(d)
    \/ Connect
    \/ Disconnect
    \/ \E manager \in {"null", "manager"} : SetChatManager(manager)
    \/ \E f \in Flows, n \in 1..MaxChunks : Call(f, n)
    \/ SendMessageRefused
    \/ \E n \in 1..MaxChunks : ProviderSend(n)
    \/ ProviderSendRefused
    \/ \E f \in Flows : Wake(f)
    \/ \E f \in Flows : Transport(f)
    \/ TransportCrash
    \/ \E f \in Flows : Sent(f)
    \/ \E f \in Flows : TransportFails(f)

SpecSend == InitSend /\ [][NextSend]_vars

\* splitMessagePublic on every text up to MaxTextLen characters and every
\* maxLen from 1 to MaxSplitLen, on a manager that does nothing else.
InitSplit ==
    /\ Construct({RegularTokens}, TierIntervals)
    /\ chatClient = "null"
    /\ chatManager = "null"
    /\ apiClient = "null"
    /\ botUserId = "null"
    /\ NoHandler /\ NoRegistry /\ NoEvent
    /\ text \in Texts
    /\ maxLen \in 1..MaxSplitLen
    /\ chunks = <<>>

NextSplit == SplitMessage

\* The provider's registries, on a plugin that does nothing else.
InitRegistry ==
    /\ Construct({RegularTokens}, TierIntervals)
    /\ chatClient = "null"
    /\ chatManager = "null"
    /\ apiClient = "null"
    /\ botUserId = "null"
    /\ NoSplit /\ NoHandler /\ NoRegistry /\ NoEvent

NextRegistry ==
    \/ \E k \in Keys, i \in Items : RegisterCommand(k, i)
    \/ \E k \in Keys : UnregisterCommand(k)
    \/ \E k \in Keys, i \in Items : AddMessageParser(k, i)
    \/ \E k \in Keys : RemoveMessageParser(k)

SpecRegistry == InitRegistry /\ [][NextRegistry]_vars

\* A manager as the plugin constructs it (no API client, no bot user id),
\* not yet connected, receiving chat messages.
InitHandle ==
    /\ Construct(HandleCapacities, SendIntervals)
    /\ chatClient = "null"
    /\ chatManager = "null"
    /\ apiClient = "null"
    /\ botUserId = "null"
    /\ NoSplit /\ NoHandler /\ NoRegistry /\ NoEvent

NextHandle ==
    \/ \E d \in SendTickSteps : Tick(d)
    \/ Connect
    \/ Disconnect
    \/ \E username \in BotNames : SetBotUsername(username)
    \/ \E m \in ChatMessages : HandleMessage(m)
    \/ \E n \in 1..MaxChunks : InjectResolves("handleMessage", n)
    \/ InjectRejects("handleMessage")
    \/ SendEnds("handleMessage")
    \/ Wake("sendMessage")
    \/ Transport("sendMessage")
    \/ TransportCrash
    \/ Sent("sendMessage")
    \/ TransportFails("sendMessage")

SpecHandle == InitHandle /\ [][NextHandle]_vars

\* A connected manager, with or without an API client and a bot user id and
\* under each dmPolicy, receiving whispers and the chat messages of a viewer.
InitWhisper ==
    /\ Construct(HandleCapacities, SendIntervals)
    /\ chatClient = "client"
    /\ chatManager = "null"
    /\ \E config \in Configs :
         /\ dmPolicy = config.dmPolicy
         /\ apiClient = config.apiClient
         /\ botUserId = config.botUserId
    /\ botUsername = Unknown
    /\ hpc = [h \in Handlers |-> "idle"]
    /\ incoming = [h \in Handlers |-> NoMessage]
    /\ calls = [h \in Handlers |-> <<>>]
    /\ NoSplit /\ NoRegistry /\ NoEvent

NextWhisper ==
    \/ \E d \in SendTickSteps : Tick(d)
    \/ \E m \in ViewerMessages : HandleMessage(m)
    \/ \E m \in Whispers : HandleWhisper(m)
    \/ \E h \in Handlers, n \in 1..MaxChunks : InjectResolves(h, n)
    \/ \E h \in Handlers : InjectRejects(h)
    \/ \E h \in Handlers : SendEnds(h)
    \/ SendWhisperSkipped
    \/ \E f \in Flows : Wake(f)
    \/ \E f \in Flows : Transport(f)
    \/ \E f \in Flows : Sent(f)
    \/ \E f \in Flows : TransportFails(f)

SpecWhisper == InitWhisper /\ [][NextWhisper]_vars

SpecSplit == InitSplit /\ [][NextSplit]_vars

\* The EventSub manager of a plugin that does nothing else.
InitEvent ==
    /\ Construct({RegularTokens}, TierIntervals)
    /\ chatClient = "null"
    /\ chatManager = "null"
    /\ apiClient = "null"
    /\ botUserId = "null"
    /\ NoSplit /\ NoHandler /\ NoRegistry /\ NoEvent

NextEvent ==
    \/ EventStart
    \/ EventStop
    \/ \E e \in Redemptions, input \in Inputs : RedemptionAdd(e, input)
    \/ \E e \in Redemptions : RedemptionInjectResolves(e)
    \/ \E e \in Redemptions : RedemptionInjectRejects(e)
    \/ \E e \in Redemptions : RedemptionFulfilled(e)
    \/ \E e \in Redemptions : RedemptionFulfilFails(e)

SpecEvent == InitEvent /\ [][NextEvent]_vars

\* Date.now() counts from an arbitrary origin and the limiter reads only
\* differences of times: the origin is moved to lastRefill.  Every time the
\* program holds (now, lastRefill, the expiry of each armed timer) is shifted
\* alike; the times kept as history are shifted and cut at the new origin.
Rebase ==
    /\ lastRefill > 0
    /\ \A f \in Flows : pc[f] = "sleep" => wake[f] >= lastRefill
    /\ now' = now - lastRefill
    /\ lastRefill' = 0
    /\ wake' = [f \in Flows |-> IF pc[f] = "sleep" THEN wake[f] - lastRefill ELSE wake[f]]
    /\ admitLog' = [i \in 1..Len(admitLog) |-> Max(admitLog[i] - lastRefill, 0)]
    /\ call' = [f \in Flows |-> [call[f] EXCEPT !.ref = Max(@ - lastRefill, 0)]]
    /\ lastOp' = Op("rebase", "clock", "none")
    /\ UNCHANGED <<maxTokens, refillIntervalMs, tokens, pc, timers, left, win, prev>>
    /\ UNCHANGED <<connVars, sends, splitVars, handlerVars, registryVars, eventVars>>

\* The clock advances by d and passes no armed timer: a timer runs at its
\* expiry, after the callbacks that run at that same time.
TickOnTime(d) ==
    /\ \A f \in Flows : pc[f] = "sleep" => now + d <= wake[f]
    /\ Tick(d)

\* The two send loops on their limiter with the clock running for ever: time
\* passes, every timer fires when it is due and in its turn, and every send in
\* hand proceeds.  Whether and when a send is started is up to the callers.
NextLive ==
    \/ \E d \in TickSteps : TickOnTime(d)
    \/ Rebase
    \/ \E f \in Flows, n \in 1..MaxChunks : Call(f, n)
    \/ \E f \in Flows : WakeInOrder(f)
    \/ \E f \in Flows : Transport(f)
    \/ \E f \in Flows : Sent(f)

Fairness ==
    /\ WF_vars(\E d \in TickSteps : TickOnTime(d))
    /\ WF_vars(Rebase)
    /\ \A f \in Flows : WF_vars(WakeInOrder(f)) /\ WF_vars(Transport(f)) /\ WF_vars(Sent(f))

SpecLive == Init /\ [][NextLive]_vars /\ Fairness

(***************************************************************************)
(* Claims                                                                  *)
(***************************************************************************)

\* The current window has elapsed (read off the state, for the claims).
WindowElapsed == now - lastRefill >= refillIntervalMs

\* A step in which tryConsume() ran, whoever called it.
Consumes == lastOp'.res # "none"

\* A step in which flow f called waitForToken() (not a retry inside it).
CallsWait(f) == lastOp'.by = f /\ lastOp'.op \in {"call", "sent"} /\ lastOp'.res # "none"

\* C1: before the first rollover and without a tier switch, a tryConsume() is
\* admitted exactly when fewer than capacity admissions were granted: the first
\* c calls return true and the (c+1)-th returns false.
C1_FirstWindowAdmits ==
    [][(Consumes /\ ~win.refilled /\ prev.lastMod = "none" /\ ~WindowElapsed)
         => ((lastOp'.res = "admit") <=> (win.admitted < maxTokens))]_vars

\* C1 witness: the 21st call on a limiter of 20 has just been denied.
C1_Witness ==
    /\ ~win.refilled /\ prev.lastMod = "none" /\ ~WindowElapsed
    /\ maxTokens = RegularTokens
    /\ lastOp.res = "deny" /\ win.admitted = RegularTokens

\* C2: with no token left, a tryConsume() made once now - lastRefill >=
\* refillIntervalMs (equality included) is admitted, sets lastRefill to now and
\* leaves capacity - 1 tokens; and tokens and lastRefill change in no step other
\* than a tryConsume().
C2_RefillOnDemand ==
    [][/\ (Consumes /\ tokens = 0 /\ WindowElapsed)
            => /\ lastOp'.res = "admit"
               /\ lastRefill' = now
               /\ tokens' = maxTokens - 1
               /\ win'.admitted = 1
       /\ ~Consumes => (tokens' = tokens /\ lastRefill' = lastRefill)]_vars

\* C2 witness: after a denial, the window elapsed exactly and the next call was
\* admitted on the refill.
C2_Witness ==
    /\ prev.denied /\ prev.exact
    /\ lastOp.res = "admit" /\ win.admitted = 1
    /\ lastRefill = now /\ tokens = maxTokens - 1

\* C3: the admissions granted since the last refill and the tokens left add up
\* to the capacity in force at that refill, so no more admissions are granted
\* in a window than that capacity.
C3_NoOverAdmission ==
    /\ win.admitted <= win.cap
    /\ win.admitted + tokens = win.cap

\* C3 witness: the two send loops each hold an admission of the same window,
\* which is thereby exhausted.
C3_Witness ==
    /\ pc["sendMessage"] = "admitted" /\ pc["sendWhisper"] = "admitted"
    /\ win.cap = 2 /\ win.admitted = 2 /\ tokens = 0

\* C4 (as claimed): any capacity + 1 admissions lie at least refillIntervalMs
\* apart, i.e. no interval shorter than the window holds more than capacity
\* admissions.
C4_SlidingWindowCeiling ==
    \A i \in 1..(Len(admitLog) - maxTokens) :
        admitLog[i + maxTokens] - admitLog[i] >= refillIntervalMs

\* C5 (as claimed): every waitForToken() that had to sleep is eventually
\* admitted, other flows requesting admissions or not.
C5_EventualAdmission ==
    \A f \in Flows : (pc[f] = "sleep") ~> (pc[f] = "admitted")

\* C6: a waitForToken() called with no token left does not return before
\* refillIntervalMs has passed since the lastRefill it was called at; and a
\* waiter that is the only caller of the limiter is admitted by its first
\* retry, which starts the new window and leaves capacity - 1 tokens.
C6_WaitsForTheWindow ==
    [][\A f \in Flows :
        /\ (pc'[f] = "admitted" /\ pc[f] # "admitted" /\ call'[f].zeroAtCall)
              => now' - call'[f].ref >= refillIntervalMs
        /\ (pc[f] = "sleep" /\ call[f].alone)
              => /\ tokens = 0
                 /\ wake[f] >= lastRefill + refillIntervalMs
        /\ (lastOp'.op = "wake" /\ lastOp'.by = f /\ call[f].alone)
              => /\ lastOp'.res = "admit"
                 /\ lastRefill' = now
                 /\ tokens' = maxTokens - 1]_vars

\* C6 witness: capacity 1, the token taken at construction time; the only
\* waiter slept and was admitted exactly refillIntervalMs later, leaving 0.
C6_Witness ==
    \E f \in Flows :
        /\ maxTokens = 1 /\ admitLog = <<0, refillIntervalMs>>
        /\ pc[f] = "admitted" /\ call[f].alone /\ call[f].slept /\ call[f].zeroAtCall
        /\ now = refillIntervalMs /\ lastRefill = now /\ tokens = 0

\* C7: a waitForToken() called while an admission is available (a token is
\* left, or the window has elapsed) returns without sleeping on a timer and
\* takes exactly one token.
C7_ImmediateAdmission ==
    [][\A f \in Flows :
        (CallsWait(f) /\ (tokens > 0 \/ WindowElapsed))
          => /\ pc'[f] = "admitted"
             /\ ~call'[f].slept
             /\ wake'[f] = 0
             /\ tokens' = (IF WindowElapsed THEN maxTokens ELSE tokens) - 1]_vars

\* C7 witness: a call made with no token left but the window elapsed was
\* admitted at once.
C7_Witness ==
    \E f \in Flows :
        /\ lastOp = Op("call", f, "admit")
        /\ pc[f] = "admitted" /\ call[f].zeroAtCall /\ ~call[f].slept
        /\ lastRefill = now /\ win.refilled

\* C8: setModeratorMode(isMod) sets the capacity to 100 or 20 and leaves tokens
\* and lastRefill as they are; tokens only ever grow in a tryConsume() that
\* refills, and then to the capacity then in force.
C8_TierSwitchFrame ==
    [][/\ lastOp'.op = "setModeratorMode"
            => /\ maxTokens' = (IF prev'.lastMod = "mod" THEN ModTokens ELSE RegularTokens)
               /\ tokens' = tokens
               /\ lastRefill' = lastRefill
       /\ tokens' > tokens
            => /\ Consumes /\ WindowElapsed
               /\ tokens' = maxTokens - 1]_vars

\* C8 witness: the tier was just raised on an exhausted limiter whose window
\* has elapsed, and the tokens are still 0.
C8_Witness ==
    /\ lastOp.op = "setModeratorMode"
    /\ maxTokens = ModTokens /\ win.cap # ModTokens
    /\ tokens = 0 /\ WindowElapsed

\* C9: in a window opened by a refill that followed setModeratorMode(true)
\* (resp. false), a tryConsume() is admitted exactly when fewer than 100 (resp.
\* 20) admissions were granted in that window.
C9_TierCapacityAfterRollover ==
    [][(Consumes /\ win'.mod # "none")
         => LET cap == IF win'.mod = "mod" THEN ModTokens ELSE RegularTokens
                k == IF WindowElapsed THEN 0 ELSE win.admitted
            IN  (lastOp'.res = "admit") <=> (k < cap)]_vars

\* C9 witness: after setModeratorMode(true) and a rollover, 100 calls were
\* admitted and the 101st has just been denied.
C9_Witness ==
    /\ win.mod = "mod" /\ win.admitted = ModTokens
    /\ lastOp = Op("tryConsume", "direct", "deny")

\* C10 (as claimed): 0 <= tokens <= maxTokens in every reachable state.
C10_TokensWithinCapacity == 0 <= tokens /\ tokens <= maxTokens

\* C10 (amended): 0 <= tokens <= the capacity that was in force at the last
\* refill (at construction, before the first one); tokens exceed maxTokens only
\* where setModeratorMode lowered the capacity since.
C10_TokensWithinWindowCapacity ==
    /\ 0 <= tokens
    /\ tokens <= win.cap
    /\ tokens > maxTokens => (win.cap > maxTokens /\ prev.lastMod # "none")

\* C10 witness: the capacity was lowered below the tokens still in the bucket.
C10_Witness == lastOp.op = "setModeratorMode" /\ tokens > maxTokens

\* A step in which flow f handed a chunk to the transport.
Hands(f) == lastOp'.op = "transport" /\ lastOp'.by = f /\ lastOp'.out = "none"

\* A step in which the limiter admitted flow f.
Admits(f) == lastOp'.by = f /\ lastOp'.res = "admit"

\* C11: within one send the chunks go to the transport in the order of the
\* split and one at a time: the chunk handed over is the one after those
\* already handed over, every earlier chunk has been delivered by then, a
\* chunk is admitted only while none of the send is in flight, and at most one
\* chunk of a send is in flight.
C11_ChunksInOrder ==
    [][\A f \in Flows :
         /\ Hands(f) => /\ sends[f].total - left[f] = sends[f].handed
                        /\ sends[f].delivered = sends[f].handed
                        /\ sends'[f].handed = sends[f].handed + 1
         /\ Admits(f) => sends'[f].delivered = sends'[f].handed
         /\ sends'[f].handed - sends'[f].delivered \in {0, 1}]_vars

C11_Witness ==
    \E f \in Flows : /\ lastOp = Op("transport", f, "none")
                      /\ sends[f] = [total |-> 2, paid |-> 2, handed |-> 2, delivered |-> 1]

\* A step in which the send of flow f failed.
Fails(f) == lastOp'.by = f /\ lastOp'.out \notin {"none", "returned"}

\* C12: every chunk handed to the transport was paid for with a token of its
\* own, taken from the one limiter before the hand-over: a send has handed over
\* no more chunks than it took tokens (so chat and whisper sends together
\* never outnumber the tokens consumed), an admission takes exactly one token,
\* and a send that fails gives no token back.
C12_SendsPaidFor ==
    [][\A f \in Flows :
         /\ Hands(f) => sends[f].paid = sends[f].handed + 1
         /\ sends'[f].handed <= sends'[f].paid
         /\ Admits(f) => /\ tokens' \in {tokens - 1, maxTokens - 1}
                         /\ sends'[f].paid = sends'[f].handed + 1
         /\ Fails(f) => tokens' = tokens /\ sends'[f].paid = sends[f].paid]_vars

C12_Witness ==
    /\ lastOp = Ended("failed", "sendWhisper", "transport error")
    /\ sends["sendWhisper"].handed = 2
    /\ sends["sendMessage"].handed >= 1
    /\ tokens = 0

\* The last send of flow f ended with a chunk handed over and not delivered.
Failed(f) == pc[f] = "idle" /\ sends[f].handed > sends[f].delivered

\* C13: when the transport rejects chunk k of a send, the send ends there with
\* the transport's error; the chunks before k stay delivered, chunk k is not
\* handed over again and no later chunk is admitted or handed over: the flow
\* does nothing more until it is called anew.
C13_FailureEndsTheSend ==
    [][\A f \in Flows :
         /\ (lastOp'.op = "failed" /\ lastOp'.by = f)
              => /\ lastOp'.out = "transport error"
                 /\ pc[f] = "sending" /\ pc'[f] = "idle"
                 /\ sends[f].handed = sends[f].delivered + 1
                 /\ sends'[f] = sends[f]
                 /\ tokens' = tokens
         /\ Failed(f)
              => \/ pc'[f] = "idle" /\ sends'[f] = sends[f]
                 \/ lastOp'.op = "call" /\ lastOp'.by = f]_vars

C13_Witness ==
    /\ lastOp.op = "tick"
    /\ Failed("sendMessage")
    /\ sends["sendMessage"] = [total |-> 2, paid |-> 1, handed |-> 1, delivered |-> 0]
    /\ tokens > 0

\* C14: on a connected manager whose transport never fails, with the clock
\* running, every sendMessage in progress eventually returns, all its chunks
\* handed over, whatever other sends are in flight.
C14_EverySendCompletes ==
    (pc["sendMessage"] # "idle") ~> (lastOp = Ended("sent", "sendMessage", "returned"))

\* C15: admission is first come, first served: no flow is admitted on calling
\* waitForToken() while another flow, which called earlier, is still suspended
\* in it.
C15_NoOvertaking ==
    [][\A f \in Flows :
         (CallsWait(f) /\ lastOp'.res = "admit")
           => \A g \in Flows \ {f} : pc[g] # "sleep"]_vars

\* splitMessagePublic has returned.
Split == lastOp.op = "splitMessage"

\* C16: every chunk of splitMessagePublic(text, maxLen), maxLen >= 1, is at
\* most maxLen characters long.
C16_ChunksWithinMaxLen ==
    Split => \A i \in 1..Len(chunks) : Len(chunks[i]) <= maxLen

C16_Witness ==
    /\ Split
    /\ Len(chunks) = 3
    /\ Len(chunks[1]) = maxLen
    /\ Len(chunks[2]) < maxLen
    /\ LastIndexOf(text, " ", Len(text) - 1) > maxLen

\* s with its whitespace deleted.
Strip(s) == SelectSeq(s, LAMBDA c : c \notin Whitespace)

RECURSIVE Concat(_)
\* The chunks cs, concatenated.
Concat(cs) == IF cs = <<>> THEN <<>> ELSE Head(cs) \o Concat(Tail(cs))

RECURSIVE JoinSpaces(_)
\* The chunks cs, joined with single spaces.
JoinSpaces(cs) ==
    IF Len(cs) <= 1 THEN Concat(cs) ELSE Head(cs) \o <<" ">> \o JoinSpaces(Tail(cs))

RECURSIVE Rebuilds(_, _)
\* t is the chunks cs in order, with nothing but whitespace between two chunks
\* and after the last one.
Rebuilds(t, cs) ==
    IF cs = <<>> THEN Strip(t) = <<>>
    ELSE /\ Len(Head(cs)) <= Len(t)
         /\ SubSeq(t, 1, Len(Head(cs))) = Head(cs)
         /\ \E k \in Len(Head(cs))..Len(t) :
               /\ Strip(SubSeq(t, Len(Head(cs)) + 1, k)) = <<>>
               /\ Rebuilds(Slice(t, k), Tail(cs))

RECURSIVE Collapse(_)
\* s with every run of whitespace replaced by one space.
Collapse(s) ==
    IF s = <<>> THEN s
    ELSE IF Head(s) \in Whitespace THEN <<" ">> \o Collapse(TrimStart(s))
    ELSE <<Head(s)>> \o Collapse(Tail(s))

RECURSIVE TrimEnd(_)
\* s without the whitespace at its end.
TrimEnd(s) ==
    IF s # <<>> /\ s[Len(s)] \in Whitespace THEN TrimEnd(SubSeq(s, 1, Len(s) - 1)) ELSE s

\* s with its whitespace normalized: runs collapsed, both ends trimmed.
Normalize(s) == TrimEnd(TrimStart(Collapse(s)))

\* t is words separated by single spaces: no other whitespace and no two
\* spaces in a row.
SingleSpaced(t) ==
    /\ \A i \in 1..Len(t) : t[i] # "\n"
    /\ \A i \in 1..(Len(t) - 1) : ~(t[i] = " " /\ t[i + 1] = " ")

\* No word of t is longer than w: every w + 1 characters in a row hold a space.
WordsWithin(t, w) ==
    \A i \in 1..(Len(t) - w) : \E j \in i..(i + w) : t[j] = " "

\* C17: splitMessagePublic keeps the content.  The text is its chunks in
\* order with whitespace, and nothing else, removed where it was broken, so
\* the chunks without whitespace concatenate to the text without whitespace;
\* and for a text of single-spaced words, none longer than 0.4 * maxLen, the
\* chunks joined with single spaces are, whitespace normalized, the trimmed
\* text.
C17_ContentPreserved ==
    Split => /\ Rebuilds(text, chunks)
             /\ Strip(Concat(chunks)) = Strip(text)
             /\ (SingleSpaced(text) /\ \E w \in 1..MaxSplitLen :
                                         5 * w <= 2 * maxLen /\ WordsWithin(text, w))
                   => Normalize(JoinSpaces(chunks)) = TrimEnd(TrimStart(text))

C17_Witness ==
    /\ Split
    /\ text = <<"a", "b", " ", "a", " ", "a", "b">>
    /\ maxLen = 5
    /\ chunks = << <<"a", "b", " ", "a">>, <<"a", "b">> >>

\* C18: a text no longer than maxLen comes back as one chunk, the text itself,
\* whitespace at its ends included, the empty text too.
C18_ShortTextUnchanged ==
    (Split /\ Len(text) <= maxLen) => chunks = <<text>>

C18_Witness ==
    /\ Split
    /\ text = <<" ", "a", "\n">>
    /\ maxLen = 3
    /\ chunks = << <<" ", "a", "\n">> >>

\* The chunks of a text cut at every maxLen characters: at least two, all but
\* the last exactly maxLen long, and concatenating to the text.
CutAtMaxLen ==
    /\ Len(chunks) >= 2
    /\ \A i \in 1..(Len(chunks) - 1) : Len(chunks[i]) = maxLen
    /\ Concat(chunks) = text

\* C19 as stated: a text longer than maxLen that holds no space is cut at
\* every maxLen characters.
C19_NoSpaceCut ==
    (Split /\ Len(text) > maxLen /\ \A i \in 1..Len(text) : text[i] # " ")
      => CutAtMaxLen

\* C19, amended: a text longer than maxLen that holds no whitespace at all is
\* cut at every maxLen characters.
C19_NoWhitespaceCut ==
    (Split /\ Len(text) > maxLen /\ \A i \in 1..Len(text) : text[i] \notin Whitespace)
      => CutAtMaxLen

C19_Witness ==
    /\ Split
    /\ text = <<"a", "b", "a", "a", "b", "b", "a">>
    /\ maxLen = 3
    /\ chunks = << <<"a", "b", "a">>, <<"a", "b", "b">>, <<"a">> >>

\* C20: a send attempted while chat is not connected fails with 'Twitch chat
\* not connected' and touches nothing: no token is taken and nothing goes to
\* the transport.  sendMessage without a chat client (before connect, after
\* disconnect) ends so, and so does the provider's send without a manager
\* (before init, after shutdown).
C20_NotConnectedFailsFirst ==
    [][/\ (lastOp'.op = "call" /\ lastOp'.by = "sendMessage" /\ chatClient = "null")
          => lastOp'.out = "Twitch chat not connected"
       /\ lastOp'.by = "provider"
          => chatManager = "null" /\ lastOp'.out = "Twitch chat not connected"
       /\ lastOp'.out = "Twitch chat not connected"
          => /\ chatClient = "null" \/ chatManager = "null"
             /\ UNCHANGED <<limiterVars, flowVars, win, sends>>]_vars

C20_Witness ==
    /\ lastOp = Ended("send", "provider", "Twitch chat not connected")
    /\ chatClient = "null"
    /\ sends["sendMessage"].delivered >= 1
    /\ tokens > 0

\* C25: a tryConsume() made with no token left and the window not elapsed is
\* denied by its return value, not by an error, and leaves tokens, lastRefill
\* and the capacity as they were.
C25_DenialChangesNothing ==
    [][(Consumes /\ tokens = 0 /\ now - lastRefill < refillIntervalMs)
         => /\ lastOp'.res = "deny" /\ lastOp'.out = "none"
            /\ tokens' = 0
            /\ lastRefill' = lastRefill
            /\ maxTokens' = maxTokens /\ refillIntervalMs' = refillIntervalMs]_vars

C25_Witness ==
    /\ lastOp = Op("tryConsume", "direct", "deny")
    /\ win.denied /\ win.admitted = maxTokens
    /\ now > lastRefill /\ now - lastRefill < refillIntervalMs

\* C26 as stated: in every state, once the window has elapsed the bucket is
\* full.
C26_FullOnceElapsed == WindowElapsed => tokens = maxTokens

\* C26, amended: the bucket is full once the window has elapsed whenever the
\* limiter is asked: a tryConsume() made then decides on capacity tokens,
\* so it is admitted and leaves capacity - 1; and right after any tryConsume()
\* the window has not elapsed.  Between two calls the stored tokens stay as the
\* last call left them.
C26_FullWhenAsked ==
    [][Consumes => /\ WindowElapsed => (lastOp'.res = "admit" /\ tokens' = maxTokens - 1)
                   /\ now' - lastRefill' < refillIntervalMs']_vars

C26_Witness ==
    /\ lastOp = Op("tryConsume", "direct", "admit")
    /\ prev.denied /\ ~prev.exact
    /\ maxTokens = 3 /\ tokens = 2
    /\ lastRefill = now

C28_SplitMakesProgress ==
    /\ (Len(text) > maxLen)
         => /\ SplitAt(text, maxLen) \in 1..maxLen
            /\ Len(TrimStart(Slice(text, SplitAt(text, maxLen)))) < Len(text)
    /\ (Split /\ Len(text) > maxLen)
         => /\ \A i \in 1..Len(chunks) : Len(chunks[i]) >= 1
            /\ Len(chunks) \in 1..Len(text)

C28_Witness ==
    /\ Split
    /\ Len(text) > maxLen
    /\ LastIndexOf(text, " ", maxLen) = 0
    /\ maxLen = 3
    /\ Len(chunks) = 3

\* C29: while the chat client is gone (disconnect has run), a sendMessage in
\* progress hands no chunk to the transport: when its waitForToken() returns,
\* the token it took is spent and the send fails there, nothing handed over;
\* it can return normally only on the delivery of a last chunk handed over
\* before the disconnect.
C29_DisconnectedSendFails ==
    [][/\ Hands("sendMessage") => chatClient = "client"
       /\ (lastOp'.op = "transport" /\ lastOp'.by = "sendMessage"
             /\ chatClient = "null")
            => /\ lastOp'.out = "TypeError"
               /\ pc["sendMessage"] = "admitted"
               /\ pc'["sendMessage"] = "idle"
               /\ tokens' = tokens
               /\ sends'["sendMessage"] = sends["sendMessage"]
               /\ sends["sendMessage"].paid = sends["sendMessage"].handed + 1
       /\ (lastOp'.by = "sendMessage" /\ lastOp'.out = "returned"
             /\ chatClient = "null")
            => left["sendMessage"] = 1 /\ pc["sendMessage"] = "sending"]_vars

C29_Witness ==
    /\ lastOp = Ended("transport", "sendMessage", "TypeError")
    /\ sends["sendMessage"] = [total |-> 2, paid |-> 2, handed |-> 1, delivered |-> 1]
    /\ tokens = 0

\* What a registry returns is one item per key registered and not removed
\* since, the one registered last, and nothing else.
Agrees(returned, m, last) ==
    /\ Len(returned) = Cardinality({k \in Keys : last[k] # 0})
    /\ \A k \in Keys :
         last[k] # 0 => \E j \in 1..Len(returned) :
                          /\ m[j].key = k /\ returned[j] = last[k]
                          /\ \A l \in 1..Len(returned) : m[l].key = k => l = j

\* C24: after any registerCommand / unregisterCommand calls getCommands
\* returns, for each name registered and not unregistered since, the command
\* registered last under it, and nothing else; getMessageParsers likewise by
\* parser id; and an operation on one registry leaves the other as it was.
C24_RegistriesAreMaps ==
    [][/\ Agrees(GetCommands, registeredCommands, registered["commands"])'
       /\ Agrees(GetMessageParsers, registeredParsers, registered["parsers"])'
       /\ lastOp'.op \in {"registerCommand", "unregisterCommand"}
            => registeredParsers' = registeredParsers
       /\ lastOp'.op \in {"addMessageParser", "removeMessageParser"}
            => registeredCommands' = registeredCommands]_vars

C24_Witness ==
    /\ lastOp.op = "unregisterCommand"
    /\ registered["commands"] = [k \in Keys |-> IF k = "k2" THEN 2 ELSE 0]
    /\ GetCommands = <<2>>
    /\ GetMessageParsers = <<1, 2>>
    /\ registered["parsers"]["k1"] = 2

\* Letters that differ in case only.
CasePairs == {<<"B", "b">>, <<"C", "c">>, <<"H", "h">>, <<"O", "o">>}

SameLetter(x, y) == x = y \/ <<x, y>> \in CasePairs \/ <<y, x>> \in CasePairs

EqualIgnoringCase(a, b) ==
    Len(a) = Len(b) /\ \A i \in 1..Len(a) : SameLetter(a[i], b[i])

\* The step is handler h taking a message in.
Received(h) == lastOp'.op = "handle" /\ lastOp'.by = h

\* The step takes no token and starts, advances or ends no send.
Quiet == UNCHANGED <<tokens, lastRefill, pc, left, sends, timers>>

\* The message handleMessage has taken in is the bot's own.
OwnMessage == EqualIgnoringCase(incoming'["handleMessage"].username, botUsername)

Bare(c, ch) ==
    /\ EqualIgnoringCase(c, IF Head(ch) = "#" THEN SubSeq(ch, 2, Len(ch)) ELSE ch)
    /\ \A i \in 1..Len(c) : \A pair \in CasePairs : c[i] # pair[1]

\* The number of calls of fn among cs.
Count(cs, fn) == Cardinality({i \in 1..Len(cs) : cs[i].fn = fn})

\* C23: for a chat message that is not the bot's, handleMessage calls
\* logMessage, then inject, once each, with session key twitch-<channel> and
\* channel id twitch:<channel>, <channel> being the channel without its
\* leading '#' and lowercased; sendMessage is called only once inject has
\* resolved, after those two calls and with the channel the message came
\* from; and the handler rejects when sendMessage throws or its send fails.
C23_LogInjectReply ==
    [][LET h == "handleMessage"
           cs == calls'[h]
           m == incoming'[h]
       IN  /\ Received(h) /\ ~OwnMessage
                => /\ Len(cs) = 2
                   /\ cs[1].fn = "logMessage" /\ cs[2].fn = "inject"
                   /\ \A i \in 1..2 :
                        /\ Head(cs[i].sessionKey) = "twitch-"
                        /\ Bare(Tail(cs[i].sessionKey), m.channel)
                        /\ Head(cs[i].channelId) = "twitch:"
                        /\ Bare(Tail(cs[i].channelId), m.channel)
                   /\ hpc'[h] = "inject"
                   /\ Quiet
           /\ Count(cs, "inject") <= 1
           /\ Count(cs, "sendMessage") > Count(calls[h], "sendMessage")
                => /\ hpc[h] = "inject" /\ lastOp'.out # "inject error"
                   /\ Len(cs) = 3
                   /\ cs[1].fn = "logMessage" /\ cs[2].fn = "inject"
                   /\ cs[3].fn = "sendMessage" /\ cs[3].to = m.channel
                   /\ m = incoming[h]
           /\ pc'["sendMessage"] # "idle" => hpc'[h] = "send" /\ Count(cs, "sendMessage") = 1
           /\ lastOp'.by = h /\ lastOp'.op = "inject" /\ lastOp'.out # "inject error"
                => /\ chatClient = "null"
                   /\ lastOp'.out = "Twitch chat not connected"
                   /\ Count(cs, "sendMessage") = 1
                   /\ Quiet
           /\ lastOp'.by = h /\ lastOp'.op = "send"
                => lastOp'.out =
                      IF sends["sendMessage"].delivered < sends["sendMessage"].total
                      THEN "rejected" ELSE "returned"]_vars

C23_Witness ==
    /\ lastOp = Ended("send", "handleMessage", "rejected")
    /\ incoming["handleMessage"].channel = <<"#", "C", "h">>
    /\ calls["handleMessage"] =
          <<CtxCall("logMessage", <<"twitch-", "c", "h">>, <<"twitch:", "c", "h">>, <<>>),
            CtxCall("inject", <<"twitch-", "c", "h">>, <<"twitch:", "c", "h">>, <<>>),
            CtxCall("sendMessage", <<>>, <<>>, <<"#", "C", "h">>)>>
    /\ sends["sendMessage"].delivered = 1
    /\ sends["sendMessage"].total = 2

\* C22: under dmPolicy "disabled" handleWhisper returns having called
\* neither logMessage nor inject, no token is taken and no whisper is sent;
\* under any other dmPolicy it calls inject once, with session key
\* twitch-whisper-<userId>.
C22_WhisperPolicy ==
    [][LET h == "handleWhisper"
           cs == calls'[h]
       IN  /\ Received(h) /\ dmPolicy = "disabled"
                => /\ cs = <<>>
                   /\ hpc'[h] = "idle"
                   /\ pc'["sendWhisper"] = "idle"
                   /\ lastOp'.out = "ignored"
                   /\ Quiet
           /\ Received(h) /\ dmPolicy # "disabled"
                => /\ hpc'[h] = "inject"
                   /\ Count(cs, "inject") = 1
                   /\ \A i \in 1..Len(cs) :
                        cs[i].fn = "inject"
                           => /\ Head(cs[i].sessionKey) = "twitch-whisper-"
                              /\ Tail(cs[i].sessionKey) = incoming'[h].userId
           /\ Count(cs, "inject") <= 1
           /\ dmPolicy = "disabled" => UNCHANGED <<hpc[h], sends["sendWhisper"]>>]_vars

C22_Witness ==
    /\ lastOp = Ended("handle", "handleWhisper", "ignored")
    /\ dmPolicy = "disabled"
    /\ incoming["handleWhisper"].userId = <<"8">>
    /\ hpc["handleMessage"] = "send"
    /\ tokens = 0

\* The send of flow f has stopped short of its last chunk.
Short(f) == sends[f].delivered < sends[f].total

\* C30: sendWhisper on a manager without an API client or without a bot
\* user id returns normally, takes no token and sends nothing;
\* handleWhisper returns normally when its whisper send fails, having logged
\* the error; handleMessage rejects when its chat reply fails.
C30_WhisperFailuresStayInside ==
    [][LET skips == apiClient = "null" \/ botUserId = "null"
           cs == calls'["handleWhisper"]
       IN  /\ skips => /\ pc'["sendWhisper"] = "idle"
                       /\ sends'["sendWhisper"] = NoSend
                       /\ hpc'["handleWhisper"] # "send"
           /\ skips /\ Count(cs, "sendWhisper") > Count(calls["handleWhisper"], "sendWhisper")
                => /\ lastOp' = Ended("inject", "handleWhisper", "returned")
                   /\ cs[Len(cs)].fn = "log.warn"
                   /\ Quiet
           /\ lastOp'.op = "call" /\ lastOp'.by = "sendWhisper" /\ skips
                => lastOp'.out = "returned" /\ Quiet
           /\ lastOp'.op = "send" /\ lastOp'.by = "handleWhisper"
                => /\ lastOp'.out = "returned"
                   /\ cs = IF Short("sendWhisper")
                           THEN Append(calls["handleWhisper"],
                                       CtxCall("log.error", <<>>, <<>>, <<>>))
                           ELSE calls["handleWhisper"]
           /\ lastOp'.op = "send" /\ lastOp'.by = "handleMessage" /\ Short("sendMessage")
                => lastOp'.out = "rejected"]_vars

C30_Witness ==
    /\ lastOp = Ended("send", "handleWhisper", "returned")
    /\ Len(calls["handleWhisper"]) = 4
    /\ calls["handleWhisper"][4].fn = "log.error"
    /\ sends["sendWhisper"].handed = 2
    /\ sends["sendWhisper"].delivered = 1

\* C31: the handler of a redemption event calls logMessage once, first;
\* it calls inject (once) only for an event with a non-empty input; it calls
\* updateRedemptionStatusByIds(FULFILLED) only when that inject has resolved
\* and stop() has not run since the event came in; when that call fails the
\* handler logs the error and returns normally; and for an event without
\* input it calls neither inject nor updateRedemptionStatusByIds.
C31_RedemptionHandled ==
    [][\A e \in Redemptions :
         LET r == redemptions[e]
             cs == redemptions'[e].calls
             fulfil == "updateRedemptionStatusByIds"
         IN  /\ redemptions'[e].pc # "none"
                  => Count(cs, "logMessage") = 1 /\ cs[1].fn = "logMessage"
             /\ Count(cs, "inject") = IF Len(redemptions'[e].input) > 0 THEN 1 ELSE 0
             /\ Len(redemptions'[e].input) = 0 => Count(cs, fulfil) = 0
             /\ Count(cs, fulfil) > Count(r.calls, fulfil)
                  => /\ r.pc = "inject"
                     /\ lastOp' = Op("inject", e, "none")
                     /\ ~r.stopped
                     /\ Count(cs, fulfil) = 1
                     /\ cs[Len(cs) - 1].fn = "inject"
             /\ r.stopped /\ r.pc = "inject" => Count(cs, fulfil) = 0
             /\ lastOp'.by = e /\ lastOp'.op = "fulfilFailed"
                  => /\ lastOp'.out = "returned"
                     /\ redemptions'[e].pc = "done"
                     /\ cs = Append(r.calls, PlainCall("log.error"))
             /\ lastOp'.by = e /\ lastOp'.op # "inject"
                  => lastOp'.out \in {"none", "returned"}]_vars

C31_Witness ==
    /\ lastOp = Ended("inject", "r1", "returned")
    /\ redemptions["r1"].stopped
    /\ redemptions["r1"].pc = "done"
    /\ redemptions["r1"].calls = <<EventCall("logMessage"), EventCall("inject")>>
    /\ Len(redemptions["r2"].calls) = 4
    /\ redemptions["r2"].calls[4].fn = "log.error"

=============================================================================
